---- MODULE Spec2Model ----
(***************************************************************************)
(* Model of the tool-calling orchestration loop of backend/ai_generator.py *)
(* (AIGenerator.generate_response and AIGenerator._handle_tool_execution). *)
(*                                                                         *)
(* The language-model transport (client.messages.create) and the tool     *)
(* registry (tool_manager.execute_tool) are the environment: a model call  *)
(* returns any response of ModelResponses or fails, a dispatch returns a   *)
(* text or raises an exception with a message.                             *)
(*                                                                         *)
(* One behaviour is one invocation of generate_response.  The variables    *)
(* calls, responses, dispatches and transport_failures are logs of what    *)
(* the environment saw; the code never reads them.                         *)
(***************************************************************************)
EXTENDS Integers, Sequences, FiniteSets, TLC

VARIABLES
    query,                \* argument query
    conversation_history, \* argument conversation_history ("" stands for None or "")
    tools,                \* argument tools (<<>> stands for None or [])
    tool_manager,         \* argument tool_manager (FALSE stands for None)
    max_rounds,           \* parameter max_rounds of _handle_tool_execution
    pc,                   \* position of the invocation
    api_params,           \* local api_params of generate_response
    messages,             \* local messages of _handle_tool_execution
    current_response,     \* local current_response
    round_count,          \* local round_count
    tool_results,         \* local tool_results
    bi,                   \* position of the for loop in current_response.content
    result,               \* the value returned
    exc,                  \* the exception that left generate_response
    calls,                \* log: the parameters of every client.messages.create call
    responses,            \* log: the responses the model calls returned
    dispatches,           \* log: every tool_manager.execute_tool call
    transport_failures,   \* log: number of model calls that failed
    registry_ops,         \* log: the operations invoked on tool_manager
    registered,           \* the tool names registered in tool_manager
    last_sources,         \* the registry's buffer of source attributions
    qpc,                  \* caller layer: position of every top-level query
    searches,             \* caller layer: searches the running query has made
    own,                  \* caller layer: what a query's own searches left behind
    collected,            \* caller layer: the sources returned to every query
    lock,                 \* caller layer: the query that holds the registry, or 0
    last_search,          \* caller layer: the content search that ran last
    threads,              \* concurrent invocations: the local state of each
    histories             \* concurrent invocations: the message lists in use

vars == <<query, conversation_history, tools, tool_manager, max_rounds, pc,
          api_params, messages, current_response, round_count, tool_results,
          bi, result, exc, calls, responses, dispatches, transport_failures,
          registry_ops, registered, last_sources, qpc, searches, own, collected,
          lock, last_search, threads, histories>>

inputs == <<query, conversation_history, tools, tool_manager, max_rounds, registered>>
locals == <<messages, current_response, round_count, tool_results, bi>>
\* the state of the caller layer (RAGSystem.query)
caller_vars == <<qpc, searches, own, collected, lock, last_search>>
\* the state of two invocations that run on one generator
pair_vars == <<threads, histories>>
\* the state of one generate_response invocation
loop_vars == <<inputs, pc, api_params, locals, result, exc, calls, responses,
               dispatches, transport_failures, registry_ops>>

-----------------------------------------------------------------------------
(* Bounds of the model *)

\* largest round limit max_rounds an invocation is given
MaxRoundLimit == 2
\* largest number of content blocks in one model response
MaxBlocks == 2
\* number of top-level queries of the caller layer
NumQueries == 2
\* largest number of content searches one query makes
MaxSearches == 2
\* largest number of passages one content search matches
MaxPassages == 2

-----------------------------------------------------------------------------
(* Program constants *)

\* default of the parameter max_rounds
DefaultMaxRounds == 2

SYSTEM_PROMPT == "SYSTEM_PROMPT"

\* self.base_params, built by __init__
BaseParams == [model |-> "claude-sonnet-4-20250514", temperature |-> 0, max_tokens |-> 800]

ToolChoiceAuto == [type |-> "auto"]

-----------------------------------------------------------------------------
(* Values *)

Last(s) == s[Len(s)]

NoResponse == [stop_reason |-> "none", content |-> <<>>]

NoParams == [base |-> BaseParams, messages |-> <<>>, system |-> "",
             has_tools |-> FALSE, tools |-> <<>>,
             has_tool_choice |-> FALSE, tool_choice |-> ToolChoiceAuto]

TextBlock(t) == [type |-> "text", text |-> t]

ToolUseBlock(id, name, input) ==
    [type |-> "tool_use", id |-> id, name |-> name, input |-> input]

\* the tool-invocation request blocks of a content sequence, in order
ToolUses(content) == SelectSeq(content, LAMBDA b : b.type = "tool_use")

-----------------------------------------------------------------------------
(* Environment: what the model transport may answer to the n-th call *)

ToolNameAt(i) == IF i % 2 = 1 THEN "search_course_content" ELSE "get_course_outline"

ToolInputAt(n, i) ==
    IF i % 2 = 1 THEN [query |-> "search " \o ToString(n)]
                 ELSE [course_name |-> "Course " \o ToString(n)]

\* a content sequence: an optional leading text block, then tool requests
ContentShapes ==
    { [i \in 1..k |-> "tool_use"] : k \in 0..MaxBlocks }
    \cup { [i \in 1..k |-> IF i = 1 THEN "text" ELSE "tool_use"] : k \in 1..MaxBlocks }

MkBlock(kind, n, i) ==
    IF kind = "text"
    THEN TextBlock("text " \o ToString(n))
    ELSE ToolUseBlock("toolu_" \o ToString(n) \o "_" \o ToString(i),
                      ToolNameAt(i), ToolInputAt(n, i))

MkResponse(stop, shape, n) ==
    [stop_reason |-> stop,
     content |-> [i \in 1..Len(shape) |-> MkBlock(shape[i], n, i)]]

\* A response that ends the turn holds its answer as a text block; a response
\* with the tool-request stop reason may have any shape, also one without any
\* request block.
ModelResponses(n) ==
    { MkResponse("end_turn", <<"text">>, n) }
    \cup { MkResponse("tool_use", s, n) : s \in ContentShapes }

\* what a successful dispatch of a request returns
ToolOutput(block) == "Result of " \o block.id

\* the message of the exception a failing dispatch raises
ToolFailureMessage(block) == block.name \o " failed"

\* the tools the model may ask for
AllTools == {"search_course_content", "get_course_outline"}

\* what a registry may hold: both tools, or the outline lookup alone
Registries == {AllTools, {"get_course_outline"}}

-----------------------------------------------------------------------------
(* The code *)

\* the round limits an invocation may run with: generate_response always
\* uses the default, direct callers of _handle_tool_execution pass their own
RoundLimits == {DefaultMaxRounds} \cup 1..MaxRoundLimit

\* system_content of generate_response
SystemContent(history) ==
    IF history # ""
    THEN SYSTEM_PROMPT \o "\n\nPrevious conversation:\n" \o history
    ELSE SYSTEM_PROMPT

\* api_params of generate_response
ApiParams(q, history, ts) ==
    [base |-> BaseParams,
     messages |-> <<[role |-> "user", content |-> q]>>,
     system |-> SystemContent(history),
     has_tools |-> ts # <<>>, tools |-> ts,
     has_tool_choice |-> ts # <<>>, tool_choice |-> ToolChoiceAuto]

\* the test that sends the first response to _handle_tool_execution
NeedsToolExecution(response, tm) == response.stop_reason = "tool_use" /\ tm

\* fault: the loop is entered whatever the stop reason is
WhileCondition_AnyStopReason(rc, mr, response) == rc < mr

\* fault: off by one, the loop runs one round more than the limit
WhileCondition_OffByOne(rc, mr, response) == rc <= mr /\ response.stop_reason = "tool_use"

\* fault: the loop no longer counts its rounds
WhileCondition_Unbounded(rc, mr, response) == response.stop_reason = "tool_use"

\* the condition of the while loop
WhileCondition(rc, mr, response) == rc < mr /\ response.stop_reason = "tool_use"

\* fault: the counter is raised by two
NextRound_Skips(rc) == rc + 2

\* round_count += 1
NextRound(rc) == rc + 1

\* the test of the for loop's body
IsToolUse(block) == block.type = "tool_use"

\* fault: the for loop walks the content backwards
BlockAt_Reversed(content, i) == content[Len(content) - i + 1]

\* the block the for loop visits at its i-th iteration
BlockAt(content, i) == content[i]

\* fault: the dispatch is started and the loop goes on without its result
AwaitsToolResult_Not == FALSE

\* whether the for loop waits for execute_tool: the call is synchronous
AwaitsToolResult == TRUE

\* the message of the error execute_tool fails with for an unregistered name
ToolNotFoundMessage(name) == "Tool '" \o name \o "' not found"

\* what execute_tool raises for the request block: the lookup error for an
\* unregistered name, else the failure of the tool itself
RaisedBy(block, registry) ==
    IF block.name \in registry
    THEN [kind |-> "ToolError", message |-> ToolFailureMessage(block)]
    ELSE [kind |-> "ToolNotFoundError", message |-> ToolNotFoundMessage(block.name)]

\* fault: the except clause lets the lookup error pass
CaughtByExcept_ToolErrorsOnly(kind) == kind # "ToolNotFoundError"

\* except Exception: every exception of the dispatch is caught
CaughtByExcept(kind) == TRUE

\* fault: the try statement is missing
HandlesToolException_Not == FALSE

\* whether the try statement around execute_tool handles the exception
HandlesToolException == TRUE

\* fault: the message is passed on without the prefix
ToolErrorText_Bare(m) == m

\* tool_result in the except branch
ToolErrorText(m) == "Error executing tool: " \o m

\* fault: the text of the tool is wrapped before it is handed on
ToolResultBlock_Wrapped(block, tool_result) ==
    [type |-> "tool_result", tool_use_id |-> block.id,
     content |-> "Tool result: " \o tool_result]

\* fault: the result refers to the tool's name, not to the request's id
ToolResultBlock_NameAsId(block, tool_result) ==
    [type |-> "tool_result", tool_use_id |-> block.name, content |-> tool_result]

\* the block appended to tool_results
ToolResultBlock(block, tool_result) ==
    [type |-> "tool_result", tool_use_id |-> block.id, content |-> tool_result]

\* fault: the loop works on the caller's list itself
CopiesMessages_Not == FALSE

\* messages = base_params["messages"].copy(): the loop has a list of its own
CopiesMessages == TRUE

\* base_params after the loop has made msgs its history: a list shared with
\* the caller would show every turn appended
BaseParamsAfter(base_params, msgs) ==
    IF CopiesMessages THEN base_params ELSE [base_params EXCEPT !.messages = msgs]

\* fault: only the text blocks of the response are kept
AssistantTurn_TextOnly(response) ==
    [role |-> "assistant",
     content |-> SelectSeq(response.content, LAMBDA b : b.type = "text")]

\* the turn appended at the start of a round
AssistantTurn(response) == [role |-> "assistant", content |-> response.content]

\* fault: the results take the place of the last turn
WithToolResults_Overwrite(msgs, results) ==
    IF results # <<>>
    THEN [msgs EXCEPT ![Len(msgs)] = [role |-> "user", content |-> results]]
    ELSE msgs

\* messages after the for loop
WithToolResults(msgs, results) ==
    IF results # <<>> THEN Append(msgs, [role |-> "user", content |-> results]) ELSE msgs

\* fault: the calls of the round loop never carry the tools
RoundKeepsTools_Never(rc, mr) == FALSE

\* fault: off by one, the call after the last round keeps the tools
RoundKeepsTools_Inclusive(rc, mr) == rc <= mr

\* whether the call after round rc keeps the tools
RoundKeepsTools(rc, mr) == rc < mr

\* fault: the calls of the round loop get the bare preamble as system context
RoundParams_BarePrompt(base_params, msgs, rc, mr) ==
    [base |-> BaseParams,
     messages |-> msgs,
     system |-> SYSTEM_PROMPT,
     has_tools |-> RoundKeepsTools(rc, mr),
     tools |-> IF RoundKeepsTools(rc, mr) /\ base_params.has_tools
               THEN base_params.tools ELSE <<>>,
     has_tool_choice |-> RoundKeepsTools(rc, mr),
     tool_choice |-> ToolChoiceAuto]

\* round_params of _handle_tool_execution
RoundParams(base_params, msgs, rc, mr) ==
    [base |-> BaseParams,
     messages |-> msgs,
     system |-> base_params.system,
     has_tools |-> RoundKeepsTools(rc, mr),
     tools |-> IF RoundKeepsTools(rc, mr) /\ base_params.has_tools
               THEN base_params.tools ELSE <<>>,
     has_tool_choice |-> RoundKeepsTools(rc, mr),
     tool_choice |-> ToolChoiceAuto]

\* the early exit of the while loop
BreaksEarly(response) == response.stop_reason # "tool_use"

\* fault: the text of the response the loop was entered with is returned
FinalResponse_Initial(initial_response, response) == initial_response

\* the response whose text _handle_tool_execution returns
FinalResponse(initial_response, response) == response

\* fault: the block itself is formatted, not its text
ResponseText_Repr(block) == "TextBlock(text='" \o block.text \o "')"

\* response.content[0].text
ResponseText(block) == block.text

\* fault: the failure is swallowed and an apology is returned
OnModelCallError_Swallowed ==
    [pc |-> "returned", exc |-> "none", result |-> "Sorry, something went wrong."]

\* what a failed model call leaves behind: nothing handles it
OnModelCallError == [pc |-> "raised", exc |-> "ModelTransportError", result |-> ""]

\* return response.content[0].text: the result, or the exception of the
\* subscript or the attribute access
Return(response) ==
    IF response.content = <<>>
    THEN /\ pc' = "raised" /\ exc' = "IndexError" /\ UNCHANGED result
    ELSE IF response.content[1].type # "text"
    THEN /\ pc' = "raised" /\ exc' = "AttributeError" /\ UNCHANGED result
    ELSE /\ pc' = "returned" /\ result' = ResponseText(response.content[1])
         /\ UNCHANGED exc

-----------------------------------------------------------------------------
(* The tool registry and the content search tool *)

\* a source attribution: where it was recorded and for which matched passage
Attribution(origin, k) == [origin |-> origin, passage |-> k]

\* the attributions a content search records for its n matched passages
SourcesFound(origin, n) == [k \in 1..n |-> Attribution(origin, k)]

\* the passages the content search of a request of the loop matches
PassagesOf(block) == 1

\* fault: the loop itself resets the sources after a dispatch
RegistryCallsOfDispatch_Reset == <<"execute_tool", "reset_sources">>

\* the registry operations one iteration of the for loop invokes
RegistryCallsOfDispatch == <<"execute_tool">>

\* fault: the attributions of a search are added to the stored ones
StoreSources_Extend(buffer, found) == buffer \o found

\* last_sources after a content search that matched passages: the
\* attributions of this search take the place of the stored ones
StoreSources(buffer, found) == found

\* last_sources after execute_tool(name, ...) returned: only the content
\* search records attributions
SourcesAfterExecute(buffer, name, found) ==
    IF name = "search_course_content" THEN StoreSources(buffer, found) ELSE buffer

\* fault: reset_sources leaves the attributions where they are
ResetSources_Kept(buffer) == buffer

\* reset_sources: last_sources afterwards
ResetSources(buffer) == <<>>

\* last_sources after the registry ran the operations ops
RECURSIVE SourcesAfterCalls(_, _)
SourcesAfterCalls(buffer, ops) ==
    IF ops = <<>> THEN buffer
    ELSE SourcesAfterCalls(IF Head(ops) = "reset_sources"
                           THEN ResetSources(buffer) ELSE buffer,
                           Tail(ops))

\* get_last_sources: what the caller collects
GetLastSources(buffer) == buffer

\* the filters a content search may be given: "" and 0 stand for None
CourseFilters == {"", "Test Course"}

LessonFilters == {0, 5}

\* fault: the text does not name the filters
NoResultsText_Unfiltered(course, lesson) == "No relevant content found."

\* the text of a content search that matched nothing
NoResultsText(course, lesson) ==
    "No relevant content found"
    \o (IF course # "" THEN " in course '" \o course \o "'" ELSE "")
    \o (IF lesson # 0 THEN " in lesson " \o ToString(lesson) ELSE "")
    \o "."

\* the text execute returns for n matched passages
SearchText(n, course, lesson) ==
    IF n = 0 THEN NoResultsText(course, lesson)
    ELSE "[Course - Lesson 1] " \o ToString(n) \o " passages"

\* last_sources after a content search with n matches; whether a search
\* without matches empties the stored attributions is left open (keeps)
SourcesAfterSearch(buffer, found, keeps) ==
    IF found = <<>> /\ keeps THEN buffer ELSE StoreSources(buffer, found)

\* no content search has run in the current query
NoSearch == [n |-> -1]

-----------------------------------------------------------------------------
(* State after construction, before generate_response runs *)

\* no top-level query of the caller layer has started
CallerIdle ==
    /\ qpc = [q \in 1..NumQueries |-> "idle"]
    /\ searches = [q \in 1..NumQueries |-> 0]
    /\ own = [q \in 1..NumQueries |-> <<>>]
    /\ collected = [q \in 1..NumQueries |-> <<>>]
    /\ lock = 0
    /\ last_search = NoSearch

\* no concurrent invocations are under way
PairIdle ==
    /\ threads = <<>>
    /\ histories = <<>>

Init ==
    /\ query = "What is machine learning?"
    /\ conversation_history \in {"", "User: hi"}
    /\ tools \in {<<>>, <<[name |-> "search_course_content"], [name |-> "get_course_outline"]>>}
    /\ tool_manager \in BOOLEAN
    /\ max_rounds \in RoundLimits
    /\ registered \in (IF tool_manager THEN Registries ELSE {{}})
    /\ pc = "start"
    /\ api_params = NoParams
    /\ messages = <<>>
    /\ current_response = NoResponse
    /\ round_count = 0
    /\ tool_results = <<>>
    /\ bi = 0
    /\ result = ""
    /\ exc = "none"
    /\ calls = <<>>
    /\ responses = <<>>
    /\ dispatches = <<>>
    /\ transport_failures = 0
    /\ registry_ops = <<>>
    /\ last_sources = <<>>
    /\ CallerIdle
    /\ PairIdle

-----------------------------------------------------------------------------
(* Actions *)

\* generate_response up to and including the issue of the first model call
GenerateResponse ==
    /\ pc = "start"
    /\ api_params' = ApiParams(query, conversation_history, tools)
    /\ calls' = Append(calls, api_params')
    /\ pc' = "initial_call"
    /\ UNCHANGED <<inputs, locals, result, exc, responses, dispatches, transport_failures,
                   registry_ops, last_sources, caller_vars, pair_vars>>

\* the first model call returns: hand over to _handle_tool_execution, whose
\* first three statements run here, or return the text
InitialCallReturns ==
    /\ pc = "initial_call"
    /\ \E response \in ModelResponses(Len(calls)) :
         /\ responses' = Append(responses, response)
         /\ IF NeedsToolExecution(response, tool_manager)
            THEN /\ messages' = api_params.messages
                 /\ current_response' = response
                 /\ round_count' = 0
                 /\ pc' = "while"
                 /\ UNCHANGED <<result, exc, tool_results, bi>>
            ELSE /\ Return(response)
                 /\ UNCHANGED locals
    /\ UNCHANGED <<inputs, api_params, calls, dispatches, transport_failures,
                   registry_ops, last_sources, caller_vars, pair_vars>>

\* a model call fails
ModelCallRaises ==
    /\ pc \in {"initial_call", "round_call"}
    /\ transport_failures' = transport_failures + 1
    /\ pc' = OnModelCallError.pc
    /\ exc' = OnModelCallError.exc
    /\ result' = OnModelCallError.result
    /\ UNCHANGED <<inputs, api_params, locals, calls, responses, dispatches,
                   registry_ops, last_sources, caller_vars, pair_vars>>

\* the test of the while loop and, when it holds, the statements before the
\* for loop; when it fails, the return statement
WhileTest ==
    /\ pc = "while"
    /\ IF WhileCondition(round_count, max_rounds, current_response)
       THEN /\ round_count' = NextRound(round_count)
            /\ messages' = Append(messages, AssistantTurn(current_response))
            /\ tool_results' = <<>>
            /\ bi' = 1
            /\ pc' = "for"
            /\ UNCHANGED <<result, exc, current_response>>
       ELSE /\ Return(FinalResponse(responses[1], current_response))
            /\ UNCHANGED locals
    /\ api_params' = BaseParamsAfter(api_params, messages')
    /\ UNCHANGED <<inputs, calls, responses, dispatches, transport_failures,
                   registry_ops, last_sources, caller_vars, pair_vars>>

\* one iteration of the for loop up to the call of execute_tool
ForBlock ==
    /\ pc = "for"
    /\ bi <= Len(current_response.content)
    /\ LET block == BlockAt(current_response.content, bi) IN
         IF IsToolUse(block)
         THEN /\ dispatches' = Append(dispatches,
                      [round |-> round_count, id |-> block.id, name |-> block.name,
                       input |-> block.input, done |-> FALSE, raised |-> FALSE,
                       message |-> ""])
              /\ registry_ops' = registry_ops \o RegistryCallsOfDispatch
              /\ last_sources' = SourcesAfterCalls(last_sources, Tail(RegistryCallsOfDispatch))
              /\ IF AwaitsToolResult
                 THEN pc' = "execute_tool" /\ UNCHANGED bi
                 ELSE bi' = bi + 1 /\ UNCHANGED pc
         ELSE /\ bi' = bi + 1
              /\ UNCHANGED <<pc, dispatches, registry_ops, last_sources>>
    /\ UNCHANGED <<inputs, api_params, messages, current_response, round_count,
                   tool_results, result, exc, calls, responses, transport_failures,
                   caller_vars, pair_vars>>

\* execute_tool returns its text
ToolReturns ==
    /\ pc = "execute_tool"
    /\ BlockAt(current_response.content, bi).name \in registered
    /\ LET block == BlockAt(current_response.content, bi)
           tool_result == ToolOutput(block) IN
         /\ dispatches' = [dispatches EXCEPT ![Len(dispatches)].done = TRUE]
         /\ tool_results' = Append(tool_results, ToolResultBlock(block, tool_result))
         /\ last_sources' = SourcesAfterExecute(last_sources, block.name,
                                  SourcesFound(block.id, PassagesOf(block)))
    /\ bi' = bi + 1
    /\ pc' = "for"
    /\ UNCHANGED <<inputs, api_params, messages, current_response, round_count,
                   result, exc, calls, responses, transport_failures, registry_ops,
                   caller_vars, pair_vars>>

\* execute_tool raises an exception
ToolRaises ==
    /\ pc = "execute_tool"
    /\ LET block == BlockAt(current_response.content, bi)
           e == RaisedBy(block, registered)
           m == e.message IN
         /\ dispatches' = [dispatches EXCEPT ![Len(dispatches)].done = TRUE,
                                              ![Len(dispatches)].raised = TRUE,
                                              ![Len(dispatches)].message = m]
         /\ IF HandlesToolException /\ CaughtByExcept(e.kind)
            THEN /\ tool_results' = Append(tool_results,
                                           ToolResultBlock(block, ToolErrorText(m)))
                 /\ bi' = bi + 1
                 /\ pc' = "for"
                 /\ UNCHANGED exc
            ELSE /\ pc' = "raised"
                 /\ exc' = e.kind
                 /\ UNCHANGED <<tool_results, bi>>
    /\ UNCHANGED <<inputs, api_params, messages, current_response, round_count,
                   result, calls, responses, transport_failures,
                   registry_ops, last_sources, caller_vars, pair_vars>>

\* after the for loop: the tool results join the history and the next model
\* call is issued
RoundCall ==
    /\ pc = "for"
    /\ bi > Len(current_response.content)
    /\ messages' = WithToolResults(messages, tool_results)
    /\ calls' = Append(calls, RoundParams(api_params, messages', round_count, max_rounds))
    /\ pc' = "round_call"
    /\ api_params' = BaseParamsAfter(api_params, messages')
    /\ UNCHANGED <<inputs, current_response, round_count, tool_results,
                   bi, result, exc, responses, dispatches, transport_failures,
                   registry_ops, last_sources, caller_vars, pair_vars>>

\* the model call of a round returns: leave the loop early or test it again
RoundCallReturns ==
    /\ pc = "round_call"
    /\ \E response \in ModelResponses(Len(calls)) :
         /\ responses' = Append(responses, response)
         /\ current_response' = response
         /\ IF BreaksEarly(response)
            THEN Return(FinalResponse(responses[1], response))
            ELSE /\ pc' = "while"
                 /\ UNCHANGED <<result, exc>>
    /\ UNCHANGED <<inputs, api_params, messages, round_count, tool_results, bi,
                   calls, dispatches, transport_failures,
                   registry_ops, last_sources, caller_vars, pair_vars>>

Next ==
    \/ GenerateResponse
    \/ InitialCallReturns
    \/ ModelCallRaises
    \/ WhileTest
    \/ ForBlock
    \/ ToolReturns
    \/ ToolRaises
    \/ RoundCall
    \/ RoundCallReturns

Spec == Init /\ [][Next]_vars

\* the invocations that can dispatch tools: a registry was supplied, and so
\* were its schemas (the prior conversation and the schemas only reach the
\* parameters of the calls, never the control flow)
DispatchingInit == Init /\ tool_manager /\ conversation_history = "" /\ tools # <<>>

\* an invocation that is not blocked keeps running: the code is sequential
\* and every call it waits for returns or raises
FairSpec == DispatchingInit /\ [][Next]_vars /\ WF_vars(Next)

-----------------------------------------------------------------------------
(* Direct entry into _handle_tool_execution *)

\* a caller enters _handle_tool_execution itself, with a response it holds
\* and the parameters of a call it has made elsewhere: the first three
\* statements have run, no model call of this invocation has been made
DirectInit ==
    /\ query = "What is machine learning?"
    /\ conversation_history = ""
    /\ tools \in {<<>>, <<[name |-> "search_course_content"], [name |-> "get_course_outline"]>>}
    /\ tool_manager = TRUE
    /\ max_rounds \in RoundLimits
    /\ registered \in Registries
    /\ pc = "while"
    /\ api_params = ApiParams(query, conversation_history, tools)
    /\ messages = api_params.messages
    /\ current_response \in ModelResponses(0)
    /\ responses = <<current_response>>
    /\ round_count = 0
    /\ tool_results = <<>>
    /\ bi = 0
    /\ result = ""
    /\ exc = "none"
    /\ calls = <<>>
    /\ dispatches = <<>>
    /\ transport_failures = 0
    /\ registry_ops = <<>>
    /\ last_sources = <<>>
    /\ CallerIdle
    /\ PairIdle

DirectNext ==
    \/ ModelCallRaises
    \/ WhileTest
    \/ ForBlock
    \/ ToolReturns
    \/ ToolRaises
    \/ RoundCall
    \/ RoundCallReturns

DirectSpec == DirectInit /\ [][DirectNext]_vars

-----------------------------------------------------------------------------
(* The caller layer: top-level queries that share one registry.  A query
   holds the registry from its start until it has reset the sources; what
   generate_response does in between is reduced to its content searches.
   Queries whose generate_response raises are not part of this layer. *)

Queries == 1..NumQueries

\* fault: queries do not wait for the registry
MayStart_NoLock(q) == TRUE

\* the lock-per-query discipline: a query starts when no other holds the registry
MayStart(q) == lock = 0

CallerInit ==
    /\ Init
    /\ conversation_history = ""
    /\ tools # <<>>
    /\ tool_manager
    /\ max_rounds = DefaultMaxRounds
    /\ registered = AllTools

\* query(): the registry is taken and generate_response is called
QueryStart(q) ==
    /\ qpc[q] = "idle"
    /\ MayStart(q)
    /\ lock' = q
    /\ qpc' = [qpc EXCEPT ![q] = "generating"]
    /\ searches' = [searches EXCEPT ![q] = 0]
    /\ last_search' = NoSearch
    /\ UNCHANGED <<loop_vars, pair_vars, last_sources, own, collected>>

\* a dispatch of generate_response runs the content search
ContentSearch(q) ==
    /\ qpc[q] = "generating"
    /\ searches[q] < MaxSearches
    /\ \E n \in 0..MaxPassages, course \in CourseFilters, lesson \in LessonFilters,
          keeps \in BOOLEAN :
         /\ n > 0 => ~keeps
         /\ LET s == searches[q] + 1
                found == SourcesFound(<<q, s>>, n) IN
              /\ searches' = [searches EXCEPT ![q] = s]
              /\ last_sources' = SourcesAfterSearch(last_sources, found, keeps)
              /\ own' = [own EXCEPT ![q] = SourcesAfterSearch(own[q], found, keeps)]
              /\ last_search' = [n |-> n, query |-> q, search |-> s, course |-> course,
                                 lesson |-> lesson, held |-> Len(last_sources),
                                 text |-> SearchText(n, course, lesson)]
    /\ UNCHANGED <<loop_vars, pair_vars, qpc, collected, lock>>

\* generate_response returns the answer
GenerateReturns(q) ==
    /\ qpc[q] = "generating"
    /\ qpc' = [qpc EXCEPT ![q] = "answered"]
    /\ last_search' = NoSearch
    /\ UNCHANGED <<loop_vars, pair_vars, last_sources, searches, own, collected, lock>>

\* sources = tool_manager.get_last_sources()
CollectSources(q) ==
    /\ qpc[q] = "answered"
    /\ collected' = [collected EXCEPT ![q] = GetLastSources(last_sources)]
    /\ qpc' = [qpc EXCEPT ![q] = "collected"]
    /\ UNCHANGED <<loop_vars, pair_vars, last_sources, searches, own, lock, last_search>>

\* tool_manager.reset_sources(), after which the registry is given up
ResetAndReturn(q) ==
    /\ qpc[q] = "collected"
    /\ last_sources' = ResetSources(last_sources)
    /\ qpc' = [qpc EXCEPT ![q] = "done"]
    /\ lock' = 0
    /\ UNCHANGED <<loop_vars, pair_vars, searches, own, collected, last_search>>

CallerNext ==
    \E q \in Queries :
        \/ QueryStart(q)
        \/ ContentSearch(q)
        \/ GenerateReturns(q)
        \/ CollectSources(q)
        \/ ResetAndReturn(q)

CallerSpec == CallerInit /\ [][CallerNext]_vars

-----------------------------------------------------------------------------
(* Two generate_response invocations on one generator, interleaved
   statement by statement.  Each gets a registry and the tool schemas; every
   tool-request response holds a text block and one request, every dispatch
   returns.  The generator's own attributes (client, model, base_params) are
   only read. *)

Invocations == {1, 2}

\* the query of invocation t
QueryOf(t) == "query " \o ToString(t)

\* the schemas both invocations are given
PairTools == <<[name |-> "search_course_content"], [name |-> "get_course_outline"]>>

\* what the model may answer to the n-th call of invocation t
PairResponses(t, n) ==
    { MkResponse("end_turn", <<"text">>, 10 * t + n),
      MkResponse("tool_use", <<"text", "tool_use">>, 10 * t + n) }

\* fault: the history is kept on the generator, one list for all invocations
HistoryOwner_Generator(t) == 1

\* the list an invocation works on: messages is a local variable
HistoryOwner(t) == t

\* tool_results after the for loop
RoundResults(response) ==
    LET reqs == ToolUses(response.content) IN
      [i \in 1..Len(reqs) |-> ToolResultBlock(reqs[i], ToolOutput(reqs[i]))]

PairInit ==
    /\ query = "What is machine learning?"
    /\ conversation_history = ""
    /\ tools = PairTools
    /\ tool_manager = TRUE
    /\ max_rounds = DefaultMaxRounds
    /\ registered = AllTools
    /\ pc = "start"
    /\ api_params = NoParams
    /\ messages = <<>>
    /\ current_response = NoResponse
    /\ round_count = 0
    /\ tool_results = <<>>
    /\ bi = 0
    /\ result = ""
    /\ exc = "none"
    /\ calls = <<>>
    /\ responses = <<>>
    /\ dispatches = <<>>
    /\ transport_failures = 0
    /\ registry_ops = <<>>
    /\ last_sources = <<>>
    /\ CallerIdle
    /\ threads = [t \in Invocations |->
                    [pc |-> "start", api_params |-> NoParams,
                     current_response |-> NoResponse, round_count |-> 0,
                     responses |-> <<>>, sent |-> <<>>, result |-> ""]]
    /\ histories = [t \in Invocations |-> <<>>]

\* the frame of every step of the two invocations
PairFrame == UNCHANGED <<loop_vars, last_sources, caller_vars>>

\* generate_response of t up to and including the issue of the first call
PairGenerate(t) ==
    /\ threads[t].pc = "start"
    /\ LET params == ApiParams(QueryOf(t), "", PairTools) IN
         threads' = [threads EXCEPT ![t].pc = "initial_call",
                                    ![t].api_params = params,
                                    ![t].sent = Append(@, params.messages)]
    /\ UNCHANGED histories
    /\ PairFrame

\* the first call of t returns; the loop starts with its copy of the list
PairInitialReturns(t) ==
    /\ threads[t].pc = "initial_call"
    /\ \E response \in PairResponses(t, Len(threads[t].sent)) :
         IF NeedsToolExecution(response, TRUE)
         THEN /\ threads' = [threads EXCEPT ![t].pc = "while",
                                            ![t].current_response = response,
                                            ![t].responses = Append(@, response),
                                            ![t].round_count = 0]
              /\ histories' = [histories EXCEPT
                                  ![HistoryOwner(t)] = threads[t].api_params.messages]
         ELSE /\ threads' = [threads EXCEPT ![t].pc = "returned",
                                            ![t].responses = Append(@, response),
                                            ![t].result = ResponseText(response.content[1])]
              /\ UNCHANGED histories
    /\ PairFrame

\* the test of the while loop of t and the append of the assistant turn
PairWhile(t) ==
    /\ threads[t].pc = "while"
    /\ LET th == threads[t] IN
         IF WhileCondition(th.round_count, DefaultMaxRounds, th.current_response)
         THEN /\ threads' = [threads EXCEPT ![t].pc = "for",
                                            ![t].round_count = NextRound(@)]
              /\ histories' = [histories EXCEPT ![HistoryOwner(t)] =
                                  Append(@, AssistantTurn(th.current_response))]
         ELSE /\ threads' = [threads EXCEPT
                                ![t].pc = "returned",
                                ![t].result = ResponseText(th.current_response.content[1])]
              /\ UNCHANGED histories
    /\ PairFrame

\* the for loop of t and the append of the user turn
PairToolRound(t) ==
    /\ threads[t].pc = "for"
    /\ threads' = [threads EXCEPT ![t].pc = "results"]
    /\ histories' = [histories EXCEPT ![HistoryOwner(t)] =
                        WithToolResults(@, RoundResults(threads[t].current_response))]
    /\ PairFrame

\* the model call of the round of t is issued with the list as it stands
PairRoundCall(t) ==
    /\ threads[t].pc = "results"
    /\ LET th == threads[t]
           params == RoundParams(th.api_params, histories[HistoryOwner(t)],
                                 th.round_count, DefaultMaxRounds) IN
         threads' = [threads EXCEPT ![t].pc = "round_call",
                                    ![t].sent = Append(@, params.messages)]
    /\ UNCHANGED histories
    /\ PairFrame

\* the model call of the round of t returns
PairRoundReturns(t) ==
    /\ threads[t].pc = "round_call"
    /\ \E response \in PairResponses(t, Len(threads[t].sent)) :
         threads' = [threads EXCEPT
                        ![t].current_response = response,
                        ![t].responses = Append(@, response),
                        ![t].pc = IF BreaksEarly(response) THEN "returned" ELSE "while",
                        ![t].result = IF BreaksEarly(response)
                                      THEN ResponseText(response.content[1]) ELSE @]
    /\ UNCHANGED histories
    /\ PairFrame

PairNext ==
    \E t \in Invocations :
        \/ PairGenerate(t)
        \/ PairInitialReturns(t)
        \/ PairWhile(t)
        \/ PairToolRound(t)
        \/ PairRoundCall(t)
        \/ PairRoundReturns(t)

PairSpec == PairInit /\ [][PairNext]_vars

-----------------------------------------------------------------------------
(* Vocabulary of the properties *)

IsToolRequest(response) == response.stop_reason = "tool_use"

Terminated == pc \in {"returned", "raised"}

\* the dispatches of round r, in the order they were started
RoundDispatches(r) == SelectSeq(dispatches, LAMBDA d : d.round = r)

Ids(blocks) == [i \in 1..Len(blocks) |-> blocks[i].id]

IsPrefix(s, t) == Len(s) <= Len(t) /\ \A i \in 1..Len(s) : s[i] = t[i]

ToolFailed == \E i \in 1..Len(dispatches) : dispatches[i].raised

-----------------------------------------------------------------------------
(* Properties *)

\* C1: when the first model response has a stop reason other than the tool
\* request, exactly one model call was made, nothing was dispatched and the
\* text of that response is what generate_response returned, with or without
\* tool schemas and a registry.
C1_DirectAnswer ==
    (Len(responses) >= 1 /\ ~IsToolRequest(responses[1])) =>
        /\ Len(calls) = 1
        /\ Len(responses) = 1
        /\ dispatches = <<>>
        /\ pc = "returned"
        /\ result = responses[1].content[1].text

C1_Witness ==
    /\ pc = "returned"
    /\ Len(responses) = 1
    /\ ~IsToolRequest(responses[1])
    /\ tools # <<>>
    /\ tool_manager

\* the turns of a history are matched: an assistant turn with requests is
\* followed at once by a user turn with one result per request, in order
MatchedTurns(msgs) ==
    \A j \in 1..Len(msgs) :
        (msgs[j].role = "assistant" /\ ToolUses(msgs[j].content) # <<>>) =>
            /\ j < Len(msgs)
            /\ msgs[j + 1].role = "user"
            /\ LET reqs == ToolUses(msgs[j].content)
                   res == msgs[j + 1].content
               IN  /\ Len(res) = Len(reqs)
                   /\ \A i \in 1..Len(reqs) :
                        /\ res[i].type = "tool_result"
                        /\ res[i].tool_use_id = reqs[i].id

\* C2: in the history passed to every model call, each assistant turn with
\* tool requests is immediately followed by a user turn with as many result
\* blocks as requests, the i-th result referring to the i-th request's id.
C2_ResultsMatchRequests ==
    \A n \in 1..Len(calls) : MatchedTurns(calls[n].messages)

C2_Witness ==
    \E n \in 1..Len(calls) :
        /\ Len(calls[n].messages) >= 5
        /\ Len(ToolUses(calls[n].messages[2].content)) = 2
        /\ Len(calls[n].messages[3].content) = 2

\* C3: at most max_rounds model calls of an invocation carry tool schemas,
\* and the call with index max_rounds (the first call has index 0) carries
\* neither tool schemas nor a tool choice.
C3_ToolsWithheldAtLimit ==
    /\ Cardinality({n \in 1..Len(calls) : calls[n].has_tools}) <= max_rounds
    /\ Len(calls) > max_rounds =>
          /\ ~calls[max_rounds + 1].has_tools
          /\ ~calls[max_rounds + 1].has_tool_choice

C3_Witness ==
    /\ Len(calls) = max_rounds + 1
    /\ max_rounds = DefaultMaxRounds
    /\ calls[1].has_tools
    /\ calls[max_rounds].has_tools

\* C4: a dispatch that raised with message m is answered by the result block
\* "Error executing tool: m", and every request of the round is dispatched
\* and has its own result block in the next model call.
C4_ToolErrorInBand ==
    \A n \in 2..Len(calls) :
        LET reqs == ToolUses(responses[n - 1].content)
            ds == RoundDispatches(n - 1)
        IN  /\ Len(ds) = Len(reqs)
            /\ reqs # <<>> =>
                 LET res == Last(calls[n].messages).content
                 IN  /\ Len(res) = Len(reqs)
                     /\ \A i \in 1..Len(reqs) :
                          /\ ds[i].id = reqs[i].id
                          /\ ds[i].done
                          /\ res[i].tool_use_id = reqs[i].id
                          /\ ds[i].raised =>
                               res[i].content = "Error executing tool: " \o ds[i].message

C4_Witness ==
    \E n \in 2..Len(calls) :
        LET ds == RoundDispatches(n - 1)
        IN  /\ Len(ds) = 2
            /\ ds[1].raised
            /\ ~ds[2].raised
            /\ Len(Last(calls[n].messages).content) = 2

\* the model asked for exactly one tool in every response, the round limit
\* is 2, and the invocation has ended without a failed model call
OneToolEveryCall ==
    /\ max_rounds = 2
    /\ tool_manager
    /\ Terminated
    /\ transport_failures = 0
    /\ \A n \in 1..Len(responses) :
         IsToolRequest(responses[n]) /\ Len(ToolUses(responses[n].content)) = 1

\* C5: an invocation with round limit N makes at most N + 1 model calls, at
\* most N of them inside _handle_tool_execution, and runs at most N dispatch
\* rounds; when the model asks for one tool on every call and N = 2, exactly
\* 3 model calls and exactly 2 dispatches occur.
C5_CallsBounded ==
    /\ Len(calls) <= max_rounds + 1
    /\ Len(calls) - 1 <= max_rounds
    /\ round_count <= max_rounds
    /\ \A i \in 1..Len(dispatches) : dispatches[i].round <= max_rounds
    /\ OneToolEveryCall => (Len(calls) = 3 /\ Len(dispatches) = 2)

C5_Witness ==
    /\ OneToolEveryCall
    /\ pc = "returned"
    /\ Len(calls) = 3

\* C6: once a response received inside the round loop has a stop reason
\* other than the tool request, no model call and no dispatch follows and its
\* text is returned: when responses 1..k ask for tools and response k + 1
\* does not (1 <= k <= max_rounds), k + 1 model calls and k rounds occurred.
C6_EarlyTermination ==
    \A n \in 2..Len(responses) :
        ~IsToolRequest(responses[n]) =>
            /\ Len(responses) = n
            /\ Len(calls) = n
            /\ round_count = n - 1
            /\ \A i \in 1..Len(dispatches) :
                 dispatches[i].round <= n - 1 /\ dispatches[i].done
            /\ pc = "returned"
            /\ result = responses[n].content[1].text

C6_Witness ==
    /\ Len(responses) = 3
    /\ ~IsToolRequest(responses[3])
    /\ pc = "returned"
    /\ Len(dispatches) >= 2

\* C7: a response with the tool-request stop reason and no tool request
\* block causes no dispatch and no further model call, and its text is what
\* is returned.
C7_EmptyToolRequestReturnsText ==
    \A n \in 1..Len(responses) :
        (IsToolRequest(responses[n]) /\ ToolUses(responses[n].content) = <<>>) =>
            /\ RoundDispatches(n) = <<>>
            /\ Len(calls) = n
            /\ (pc = "returned" /\ responses[n].content # <<>>) =>
                   result = responses[n].content[1].text

\* C8: a failed model call, the first or one inside the round loop, leaves
\* generate_response as an exception, and no model call and no dispatch
\* follows it.
C8_ModelFailurePropagates ==
    /\ [](transport_failures > 0 =>
            /\ pc = "raised"
            /\ exc = "ModelTransportError"
            /\ transport_failures = 1
            /\ Len(calls) = Len(responses) + 1)
    /\ [][transport_failures > 0 =>
            (calls' = calls /\ dispatches' = dispatches /\ pc' = pc)]_vars

C8_Witness ==
    /\ transport_failures = 1
    /\ pc = "raised"
    /\ Len(calls) >= 2
    /\ dispatches # <<>>

\* the invocation has ended and no exception of a tool ended it: it returned
\* its answer, or a model call failed, or the last response had no text to
\* return
EndedNotByTool ==
    \/ pc = "returned"
    \/ pc = "raised" /\ exc = "ModelTransportError" /\ transport_failures > 0
    \/ pc = "raised" /\ exc \in {"IndexError", "AttributeError"}
         /\ responses # <<>>
         /\ (Last(responses).content = <<>> \/ Last(responses).content[1].type # "text")

\* every round that has issued its model call handed over one result per
\* request of the round, the failed dispatches included
RoundsComplete ==
    \A n \in 2..Len(calls) :
        LET reqs == ToolUses(responses[n - 1].content)
        IN  /\ Len(RoundDispatches(n - 1)) = Len(reqs)
            /\ reqs # <<>> => Len(Last(calls[n].messages).content) = Len(reqs)

\* the model call that follows the round of every failed dispatch was issued
CalledAfterFailure ==
    \A i \in 1..Len(dispatches) :
        dispatches[i].raised => Len(calls) > dispatches[i].round

C10_SequentialDispatch ==
    /\ \A i \in 1..(Len(dispatches) - 1) : dispatches[i].done
    /\ (dispatches # <<>> /\ ~Last(dispatches).done) <=> pc = "execute_tool"
    /\ \A r \in 1..round_count :
         IsPrefix(Ids(RoundDispatches(r)), Ids(ToolUses(responses[r].content)))
    /\ pc \in {"for", "execute_tool"} =>
         LET ended == SelectSeq(RoundDispatches(round_count), LAMBDA d : d.done)
         IN  [i \in 1..Len(tool_results) |-> tool_results[i].tool_use_id] = Ids(ended)
    /\ \A n \in 2..Len(calls) :
         ToolUses(responses[n - 1].content) # <<>> =>
            [i \in 1..Len(Last(calls[n].messages).content) |->
                Last(calls[n].messages).content[i].tool_use_id]
              = Ids(ToolUses(responses[n - 1].content))

C10_Witness ==
    /\ pc = "execute_tool"
    /\ Len(RoundDispatches(round_count)) = 2
    /\ RoundDispatches(round_count)[1].done
    /\ Len(tool_results) = 1

\* C11: the model call made after round r carries, when r < max_rounds, the
\* tool schemas of the initial call and the automatic tool choice, and omits
\* both when r = max_rounds.
C11_ToolsKeptBeforeLimit ==
    \A n \in 2..Len(calls) :
        IF n - 1 < max_rounds
        THEN /\ calls[n].has_tools
             /\ calls[n].tools = calls[1].tools
             /\ calls[n].has_tool_choice
             /\ calls[n].tool_choice = [type |-> "auto"]
        ELSE /\ ~calls[n].has_tools
             /\ ~calls[n].has_tool_choice

C11_Witness ==
    /\ Len(calls) = 3
    /\ max_rounds = 2
    /\ tools # <<>>
    /\ calls[2].has_tools
    /\ calls[2].tools = tools
    /\ ~calls[3].has_tools

Range(s) == { s[i] : i \in 1..Len(s) }

\* the dispatches of content searches that returned
RecordingDispatches ==
    { i \in 1..Len(dispatches) :
        /\ dispatches[i].name = "search_course_content"
        /\ dispatches[i].done /\ ~dispatches[i].raised }

\* C12: when a query has run two tool rounds and returned, the sources the
\* caller collects hold the attributions of every content search of round 1
\* and of round 2.
C12_SourcesOfAllRoundsSurvive ==
    (pc = "returned" /\ round_count = 2) =>
        \A i \in RecordingDispatches :
            \A k \in 1..PassagesOf(dispatches[i]) :
                Attribution(dispatches[i].id, k) \in Range(GetLastSources(last_sources))

\* C13: every registry operation generate_response invokes is a tool
\* execution, one per dispatch, and the source buffer changes only while a
\* tool executes.
C13_LoopOnlyExecutesTools ==
    /\ [](/\ \A i \in 1..Len(registry_ops) : registry_ops[i] = "execute_tool"
          /\ Len(registry_ops) = Len(dispatches))
    /\ [][last_sources' # last_sources => (pc = "execute_tool" /\ pc' = "for")]_vars

C13_Witness ==
    /\ pc = "returned" /\ round_count = 2
    /\ Len(registry_ops) >= 2
    /\ last_sources # <<>>

\* the queries that have been handed their sources
Served == { q \in Queries : qpc[q] \in {"collected", "done"} }

C16_NoResultsText ==
    /\ [](last_search.n = 0 =>
            LET c == last_search.course
                l == last_search.lesson
                t == last_search.text IN
              /\ (c = "Test Course" /\ l = 5) =>
                     t = "No relevant content found in course 'Test Course' in lesson 5."
              /\ (c = "" /\ l = 0) => t = "No relevant content found."
              /\ (c = "Test Course" /\ l = 0) =>
                     t = "No relevant content found in course 'Test Course'."
              /\ (c = "" /\ l = 5) => t = "No relevant content found in lesson 5.")
    /\ [][(last_search' # last_search /\ last_search'.n = 0) =>
             /\ Len(last_sources') <= Len(last_sources)
             /\ Range(last_sources') \subseteq Range(last_sources)]_vars

C16_Witness ==
    /\ last_search.n = 0
    /\ last_search.course = "Test Course" /\ last_search.lesson = 5
    /\ last_search.search = 1
    /\ last_sources = <<>>

\* the steps one round takes at most, from the test of the while loop on
RoundWeight == 2 * MaxBlocks + 3

\* a measure of the work an invocation still has before it: the rounds left
\* and the position within the round
Rank ==
    LET left == max_rounds - round_count
        ahead == IF current_response = NoResponse THEN 0
                 ELSE 2 * (Len(current_response.content) - bi + 1)
    IN  CASE pc = "start" -> (max_rounds + 1) * RoundWeight + 2
          [] pc = "initial_call" -> (max_rounds + 1) * RoundWeight + 1
          [] pc = "while" -> left * RoundWeight + 3
          [] pc = "for" -> left * RoundWeight + 5 + ahead
          [] pc = "execute_tool" -> left * RoundWeight + 4 + ahead
          [] pc = "round_call" -> left * RoundWeight + 4
          [] OTHER -> 0

\* a response with the tool-request stop reason and no request block was received
EmptyToolRequestSeen ==
    \E n \in 1..Len(responses) :
        IsToolRequest(responses[n]) /\ ToolUses(responses[n].content) = <<>>

\* C17: every step of generate_response lowers a measure that is never
\* negative, so under a fair schedule, where each model call and dispatch
\* returns or raises, the invocation ends; when it ends without a failure the
\* model has stopped requesting tools or the rounds are used up.
C17_Terminates ==
    /\ [][Rank' < Rank]_vars
    /\ [](Rank >= 0)
    /\ [](pc = "returned" =>
            (~IsToolRequest(Last(responses)) \/ round_count = max_rounds))
    /\ <>Terminated

C17_Witness ==
    /\ pc = "returned"
    /\ EmptyToolRequestSeen
    /\ round_count = max_rounds
    /\ IsToolRequest(Last(responses))

Roles(msgs) == [i \in 1..Len(msgs) |-> msgs[i].role]

\* C18: the history of every model call starts with a user turn, ends with
\* a user turn, and no two neighbouring turns have the same role.
C18_RolesAlternate ==
    \A n \in 1..Len(calls) :
        LET roles == Roles(calls[n].messages) IN
          /\ roles[1] = "user"
          /\ Last(roles) = "user"
          /\ \A i \in 1..(Len(roles) - 1) : roles[i] # roles[i + 1]

\* C19: a model call has a tools entry or a tool-choice entry only when the
\* caller supplied a non-empty collection of tool schemas.
C19_ToolsOnlyWhenSupplied ==
    \A n \in 1..Len(calls) :
        (calls[n].has_tools \/ calls[n].has_tool_choice) => tools # <<>>

\* the response to the model call issued after the last round has arrived
BudgetExhausted == Len(responses) = max_rounds + 1

\* C20: once all rounds are used up, the last model call carried neither
\* tools nor tool choice, no request of its response is dispatched, and the
\* text returned is the text of that response.
C20_FinalAnswerAfterBudget ==
    BudgetExhausted =>
        /\ ~calls[max_rounds + 1].has_tools
        /\ ~calls[max_rounds + 1].has_tool_choice
        /\ pc \in {"while", "returned", "raised"}
        /\ \A i \in 1..Len(dispatches) :
               /\ dispatches[i].round <= max_rounds
               /\ \A b \in Range(ToolUses(Last(responses).content)) :
                      dispatches[i].id # b.id
        /\ pc = "returned" => result = Last(responses).content[1].text

C20_Witness ==
    /\ BudgetExhausted /\ max_rounds = 2
    /\ pc = "returned"
    /\ ToolUses(Last(responses).content) # <<>>
    /\ Len(dispatches) >= 2

\* the responses before model call n all hold at least one request block
RequestsBefore(n) == \A k \in 1..(n - 1) : ToolUses(responses[k].content) # <<>>

\* C21: after r rounds whose responses all hold a request block, the next
\* model call gets 1 + 2r turns: the user query, then per round the
\* assistant turn with the content the model emitted and the user turn with
\* that round's results.
C21_HistoryShape ==
    \A n \in 1..Len(calls) :
        RequestsBefore(n) =>
            LET m == calls[n].messages IN
              /\ Len(m) = 1 + 2 * (n - 1)
              /\ m[1] = [role |-> "user", content |-> query]
              /\ \A k \in 1..(n - 1) :
                     /\ m[2 * k] = [role |-> "assistant", content |-> responses[k].content]
                     /\ m[2 * k + 1].role = "user"
                     /\ [i \in 1..Len(m[2 * k + 1].content) |->
                            m[2 * k + 1].content[i].tool_use_id]
                          = Ids(ToolUses(responses[k].content))

C21_Witness ==
    /\ Len(calls) = 3 /\ RequestsBefore(3)
    /\ Len(calls[3].messages) = 5
    /\ responses[1].content[1].type = "text"

\* C22: the message list of every model call extends the list of the call
\* before it, and no step of the loop changes or removes a turn.
C22_HistoryAppendOnly ==
    /\ [](\A n \in 2..Len(calls) :
            /\ IsPrefix(calls[n - 1].messages, calls[n].messages)
            /\ Len(calls[n - 1].messages) < Len(calls[n].messages))
    /\ [][IsPrefix(messages, messages')]_vars

C22_Witness ==
    /\ Len(calls) = 3
    /\ Len(calls[2].messages) = 3
    /\ Len(calls[3].messages) = 5

\* what a dispatch was called with
CallOf(d) == [id |-> d.id, name |-> d.name, input |-> d.input]

\* C23: in every round whose model call has been issued, the dispatches are
\* the request blocks of the round's response, one each and in order, with the
\* request's name and input (so no retry and none for other blocks), and the
\* result of a dispatch that returned is the returned text.
C23_DispatchedExactlyOnce ==
    \A r \in 1..(Len(calls) - 1) :
        LET reqs == ToolUses(responses[r].content)
            ds == RoundDispatches(r)
            results == IF reqs = <<>> THEN <<>> ELSE Last(calls[r + 1].messages).content
        IN  /\ [i \in 1..Len(ds) |-> CallOf(ds[i])] = [i \in 1..Len(reqs) |-> CallOf(reqs[i])]
            /\ \A i \in 1..Len(ds) :
                   ~ds[i].raised => results[i].content = ToolOutput(reqs[i])

C23_Witness ==
    /\ Len(calls) = 2
    /\ Len(responses[1].content) = 2
    /\ Len(RoundDispatches(1)) = 2
    /\ RoundDispatches(1)[1].raised
    /\ ~RoundDispatches(1)[2].raised

\* a model call has been issued and has neither returned nor raised
ModelCallInFlight == Len(calls) > Len(responses) + transport_failures

\* the dispatches that have started and not finished
DispatchesInFlight == { i \in 1..Len(dispatches) : ~dispatches[i].done }

\* C24: at most one model call or one dispatch is in flight at any time; a
\* dispatch of round r starts only when the response to call r is there and
\* the next call is issued only when every dispatch has finished.
C24_NoOverlap ==
    /\ [](/\ Len(calls) - (Len(responses) + transport_failures) \in {0, 1}
          /\ Cardinality(DispatchesInFlight) <= 1
          /\ ~(ModelCallInFlight /\ DispatchesInFlight # {})
          /\ \A i \in 1..Len(dispatches) :
                 /\ dispatches[i].round <= Len(responses)
                 /\ dispatches[i].round <= Len(calls)
                 /\ ~dispatches[i].done => Len(calls) = dispatches[i].round)
    /\ [][Len(dispatches') > Len(dispatches) =>
             /\ ~ModelCallInFlight
             /\ Last(dispatches').round = Len(responses)]_vars
    /\ [][Len(calls') > Len(calls) =>
             /\ DispatchesInFlight = {}
             /\ \A i \in 1..Len(dispatches) : dispatches[i].round < Len(calls')]_vars

C24_Witness ==
    /\ pc = "round_call" /\ Len(calls) = 3
    /\ Len(RoundDispatches(1)) = 2 /\ Len(RoundDispatches(2)) = 2

\* the assistant turns of the running history
AssistantTurns == SelectSeq(messages, LAMBDA m : m.role = "assistant")

\* C25: the round counter stays within 0..max_rounds, equals the number of
\* assistant turns in the history, and changes only when a round is entered,
\* by one.
C25_RoundCounter ==
    /\ [](/\ round_count \in 0..max_rounds
          /\ round_count = Len(AssistantTurns))
    /\ [][IF pc = "while" /\ pc' = "for"
          THEN round_count' = round_count + 1
          ELSE round_count' = round_count]_vars

C25_Witness ==
    /\ pc = "for" /\ round_count = 2 /\ max_rounds = 2
    /\ Len(AssistantTurns) = 2

\* C26: every model call carries the system context of the initial call,
\* which is the preamble, followed by the prior conversation when a non-empty
\* one was supplied, and the model parameters of the generator.
C26_SameSystemContext ==
    \A n \in 1..Len(calls) :
        /\ calls[n].system = calls[1].system
        /\ calls[n].base = calls[1].base
        /\ calls[n].base = [model |-> "claude-sonnet-4-20250514", temperature |-> 0,
                            max_tokens |-> 800]
        /\ calls[n].system =
             IF conversation_history = "" THEN SYSTEM_PROMPT
             ELSE SYSTEM_PROMPT \o "\n\nPrevious conversation:\n" \o conversation_history

C26_Witness ==
    /\ Len(calls) = 3
    /\ conversation_history # ""
    /\ calls[3].system # SYSTEM_PROMPT

\* the finished dispatches that named a tool the registry does not hold
UnregisteredDispatches ==
    { i \in 1..Len(dispatches) :
        dispatches[i].done /\ dispatches[i].name \notin registered }

\* C27: a request for an unregistered tool never ends the query with the
\* lookup error: its result is "Error executing tool: " followed by the
\* error's message, every request of the round is dispatched, and the
\* invocation does not end before the round's model call is issued.
C27_UnknownToolInBand ==
    /\ exc # "ToolNotFoundError"
    /\ \A i \in UnregisteredDispatches :
           /\ dispatches[i].raised
           /\ dispatches[i].message = "Tool '" \o dispatches[i].name \o "' not found"
           /\ Terminated => Len(calls) > dispatches[i].round
    /\ \A r \in 1..(Len(calls) - 1) :
           LET reqs == ToolUses(responses[r].content) IN
             /\ Len(RoundDispatches(r)) = Len(reqs)
             /\ \A i \in 1..Len(reqs) :
                    reqs[i].name \notin registered =>
                        Last(calls[r + 1].messages).content[i].content
                          = "Error executing tool: Tool '" \o reqs[i].name \o "' not found"

C27_Witness ==
    /\ pc = "round_call" /\ Len(calls) = 2
    /\ Len(RoundDispatches(1)) = 2
    /\ 1 \in UnregisteredDispatches
    /\ ~dispatches[2].raised

\* C28: _handle_tool_execution entered with a response that is no tool
\* request makes no model call, dispatches nothing and returns the text of
\* that response.
C28_NothingToExecute ==
    ~IsToolRequest(responses[1]) =>
        /\ calls = <<>>
        /\ dispatches = <<>>
        /\ messages = api_params.messages
        /\ pc \in {"while", "returned"}
        /\ pc = "returned" => result = responses[1].content[1].text

C28_Witness ==
    /\ ~IsToolRequest(responses[1])
    /\ pc = "returned"
    /\ calls = <<>>
    /\ result = "text 0"

ToolRequestWithoutRegistry ==
    /\ ~tool_manager
    /\ responses # <<>>
    /\ IsToolRequest(responses[1])

\* C30: when the first response requests a tool and no registry was
\* supplied, generate_response has dispatched nothing, made no second model
\* call, and returned the text of the first content block of that response.
C30_NoRegistryReturnsText ==
    ToolRequestWithoutRegistry =>
        /\ dispatches = <<>>
        /\ Len(calls) = 1
        /\ pc = "returned"
        /\ result = responses[1].content[1].text

\* C32: from the first model call on, the parameters handed to
\* _handle_tool_execution stay as generate_response built them: the message
\* list holds the user query alone, the system context and the tool schemas
\* are the caller's, the model parameters are the generator's, and no step
\* of the loop changes any of them.
C32_InputsUnchanged ==
    /\ [](pc # "start" =>
            /\ api_params.messages = <<[role |-> "user", content |-> query]>>
            /\ api_params.system = SystemContent(conversation_history)
            /\ api_params.tools = tools
            /\ api_params.has_tools = (tools # <<>>)
            /\ api_params.base = [model |-> "claude-sonnet-4-20250514",
                                  temperature |-> 0, max_tokens |-> 800])
    /\ [][pc # "start" => (api_params' = api_params /\ inputs' = inputs)]_vars

C32_Witness ==
    /\ pc = "returned" /\ round_count = 2
    /\ Len(messages) = 5
    /\ Len(api_params.messages) = 1
    /\ tools # <<>>

\* the history invocation t has built by the time of its n-th model call,
\* made of its own query, its own responses and the results of its own requests
OwnHistory(t, n) ==
    [i \in 1..(2 * n - 1) |->
        IF i = 1 THEN [role |-> "user", content |-> QueryOf(t)]
        ELSE IF i % 2 = 0
        THEN [role |-> "assistant", content |-> threads[t].responses[i \div 2].content]
        ELSE [role |-> "user",
              content |-> RoundResults(threads[t].responses[i \div 2])]]

\* C31: under every interleaving of two invocations on one generator, the
\* messages passed to each model call of an invocation are its own query,
\* its own assistant turns and its own tool results, and nothing else.
C31_HistoriesNotShared ==
    \A t \in Invocations :
        \A n \in 1..Len(threads[t].sent) :
            threads[t].sent[n] = OwnHistory(t, n)

C31_Witness ==
    /\ threads[1].pc = "results" /\ Len(threads[1].sent) = 2
    /\ threads[2].pc = "round_call" /\ Len(threads[2].sent) = 2
    /\ Len(histories[1]) = 5 /\ Len(histories[2]) = 3

=============================================================================
